---- MODULE Spec2Model ----
(***************************************************************************)
(* copy-tree-map: the tree walk (shutil.copytree driven by _main), the     *)
(* per-file dispatch (_mycopy), the worker pool (ThreadPoolExecutor), the  *)
(* two job functions (copyjob, ffmpeg_conv) and the result aggregation     *)
(* loop of _main (src/copy_tree_map.py).                                   *)
(*                                                                         *)
(* A file or directory name is a sequence of one-character strings, a path *)
(* is a sequence of names relative to the source root (and, for the        *)
(* destination, relative to the destination root).                         *)
(***************************************************************************)
EXTENDS Integers, Sequences, FiniteSets, TLC

\* ---------------------------------------------------------------- bounds
MaxNodes == 3        \* entries in the source tree below its root
MaxDepth == 2        \* length of the longest source path
MaxUnreadable == 1   \* entries of the source tree without read permission
MaxConcurrency == 2  \* largest value of the concurrency argument

\* ------------------------------------------------------- names and inputs
N_af == <<"a", ".", "f">>
N_ao == <<"a", ".", "o">>
N_nm == <<"n", ".", "m">>
N_d  == <<"d">>
N_hf == <<".", "f">>

FileNames == {N_af, N_ao, N_nm, N_hf}
DirNames  == {N_d, N_nm}
Names     == FileNames \cup DirNames

P_star_m == <<"*", ".", "m">>
P_nqm    == <<"n", "?", "m">>

\* the ignore_patts arguments tried
IgnoreArgs == {<<>>, <<P_star_m, P_nqm>>}

E_f == <<"f">>
E_o == <<"o">>
R_f == [codec |-> "libopus", ext |-> E_o, bitrate |-> "128k"]

\* None, as returned by dict.get for a missing key
None == [codec |-> "None", ext |-> <<>>, bitrate |-> "None"]

\* the ffmpeg_map arguments tried: a dictionary is the set of its items
FfmpegMaps == {{}, {<<E_f, R_f>>}}

\* the default of an argparse attribute, and a dictionary stored in one
PyNone == [none |-> TRUE, items |-> {}]
PyDict(d) == [none |-> FALSE, items |-> d]

\* dict.get(key, None)
DictGet(map, key) ==
    IF \E it \in map : it[1] = key
    THEN (CHOOSE it \in map : it[1] = key)[2]
    ELSE None

\* ------------------------------------------------------ pathlib, fnmatch
\* str.rfind("."): the last index of a dot, 0 when there is none
RECURSIVE RFindDot(_, _)
RFindDot(name, i) ==
    IF i = 0 THEN 0
    ELSE IF name[i] = "." THEN i ELSE RFindDot(name, i - 1)

\* variant: a leading dot starts a suffix too
SuffixAnyDot(name) ==
    LET i == RFindDot(name, Len(name))
    IN  IF 0 < i /\ i < Len(name) THEN SubSeq(name, i, Len(name)) ELSE <<>>

\* pathlib.PurePath.suffix: the name from its last dot on, unless that dot
\* is the first or the last character
Suffix(name) ==
    LET i == RFindDot(name, Len(name))
    IN  IF 1 < i /\ i < Len(name) THEN SubSeq(name, i, Len(name)) ELSE <<>>

\* str.lstrip("."): drop every leading dot
RECURSIVE LStripDot(_)
LStripDot(s) ==
    IF s # <<>> /\ Head(s) = "." THEN LStripDot(Tail(s)) ELSE s

\* pathlib.PurePath.with_suffix("." + ext) on the last component
WithSuffix(name, ext) ==
    LET old == Suffix(name)
    IN  SubSeq(name, 1, Len(name) - Len(old)) \o <<".">> \o ext

\* the path with its last component replaced
ReplaceName(path, name) == SubSeq(path, 1, Len(path) - 1) \o <<name>>

Basename(path) == path[Len(path)]
Parent(path) == SubSeq(path, 1, Len(path) - 1)

\* fnmatch.fnmatchcase: "*" matches any run of characters, "?" exactly one,
\* every other character itself (case-sensitively); the whole name must match
RECURSIVE FnMatch(_, _)
FnMatch(name, pat) ==
    IF pat = <<>> THEN name = <<>>
    ELSE IF Head(pat) = "*"
         THEN FnMatch(name, Tail(pat))
              \/ (name # <<>> /\ FnMatch(Tail(name), pat))
    ELSE IF name = <<>> THEN FALSE
    ELSE IF Head(pat) = "?" THEN FnMatch(Tail(name), Tail(pat))
    ELSE Head(pat) = Head(name) /\ FnMatch(Tail(name), Tail(pat))

\* shutil.ignore_patterns(*patts)(path, names): the names some pattern matches
IgnPatts(patts, names) ==
    {n \in names : \E i \in 1..Len(patts) : FnMatch(n, patts[i])}

\* a set as a list, in one fixed order
RECURSIVE SetToSeq(_)
SetToSeq(S) ==
    IF S = {} THEN <<>>
    ELSE LET x == CHOOSE y \in S : TRUE IN <<x>> \o SetToSeq(S \ {x})

\* ----------------------------------------------------------- source trees
\* A tree is the set of its directories and the set of its files, as paths;
\* the root <<>> is always a directory.
EmptyTree == [dirs |-> {<<>>}, files |-> {}]

Grow(t) ==
    { [dirs |-> t.dirs \cup {p \o <<n>>}, files |-> t.files] :
        <<p, n>> \in {<<q, m>> \in t.dirs \X DirNames :
                        /\ Len(q) < MaxDepth
                        /\ (q \o <<m>>) \notin (t.dirs \cup t.files)} }
    \cup
    { [dirs |-> t.dirs, files |-> t.files \cup {p \o <<n>>}] :
        <<p, n>> \in {<<q, m>> \in t.dirs \X FileNames :
                        /\ Len(q) < MaxDepth
                        /\ (q \o <<m>>) \notin (t.dirs \cup t.files)} }

RECURSIVE TreesUpTo(_)
TreesUpTo(n) ==
    IF n = 0 THEN {EmptyTree}
    ELSE LET prev == TreesUpTo(n - 1)
         IN  prev \cup UNION {Grow(t) : t \in prev}

Trees == TreesUpTo(MaxNodes)

Children(t, d) == {p \in t.dirs \cup t.files : p # <<>> /\ Parent(p) = d}

\* ------------------------------------------------------------------ state
VARIABLES
    tree,          \* the source tree below indir
    unreadable,    \* the entries below indir that cannot be read
    toolStarts,    \* whether the ffmpeg executable can be started
    outdirExists,  \* whether outdir exists when _main is called
    mkdirDenied,   \* whether creating outdir is refused (permission denied)
    ffmpeg_map,    \* _main's argument
    ignore_patts,  \* _main's argument
    concurrency,   \* _main's argument
    argv,          \* the --ffmpeg occurrences of the command line, in order
    argi,          \* how many occurrences parse_args has processed
    namespace,     \* the attribute ffmpeg of the argparse namespace
    clierr,        \* the value named by the ArgumentError raised, if any
    pc,            \* where _main is
    pending,       \* how _main leaves the pool's with block
    stack,         \* the active copytree calls, innermost last
    scanned,       \* the source directories listed so far
    ignored,       \* _main's list ignored
    futures,       \* _main's list futures: the job submitted for each handle
    fut,           \* the state, result and exception of each handle
    yielded,       \* the handles as_completed has yielded, in order
    failed,        \* _main's list failed
    stderr,        \* the warning lines printed, one record each
    summary,       \* the counts of the final line printed
    ret,           \* the value _main returned
    dstDirs,       \* the directories below outdir
    dstFiles       \* the files below outdir, with their content

cliVars == <<argv, argi, namespace, clierr>>
envVars == <<tree, unreadable, toolStarts, outdirExists, mkdirDenied,
             ffmpeg_map, ignore_patts, concurrency, cliVars>>
walkVars == <<stack, scanned, ignored>>
poolVars == <<futures, fut>>
aggVars == <<yielded, failed, stderr, summary, ret>>
fsVars == <<dstDirs, dstFiles>>
vars == <<envVars, pc, pending, walkVars, poolVars, aggVars, fsVars>>

NoResult == [success |-> FALSE, src |-> <<>>, dst |-> <<>>, cmd |-> <<>>,
             msg |-> "no result"]
NoSummary == [ok |-> 0, ign |-> 0, fail |-> 0, tot |-> 0]

Init ==
    /\ tree \in Trees
    /\ unreadable \in {u \in SUBSET ((tree.dirs \cup tree.files) \ {<<>>}) :
                          Cardinality(u) <= MaxUnreadable}
    /\ ffmpeg_map \in FfmpegMaps
    /\ toolStarts \in (IF ffmpeg_map = {} THEN {TRUE} ELSE BOOLEAN)
    /\ outdirExists \in BOOLEAN
    /\ mkdirDenied \in (IF outdirExists THEN {FALSE} ELSE BOOLEAN)
    /\ ignore_patts \in IgnoreArgs
    /\ concurrency \in 0..MaxConcurrency
    /\ argv = <<>>
    /\ argi = 0
    /\ namespace = PyNone
    /\ clierr = <<>>
    /\ pc = "copytree"
    /\ pending = "none"
    /\ stack = <<>>
    /\ scanned = {}
    /\ ignored = <<>>
    /\ futures = <<>>
    /\ fut = <<>>
    /\ yielded = <<>>
    /\ failed = <<>>
    /\ stderr = <<>>
    /\ summary = NoSummary
    /\ ret = 0
    /\ dstDirs = {}
    /\ dstFiles = {}

\* ------------------------------------------------------------- the walk
\* variant: the ignored names are skipped among the files only
KeptFilesOnly(d) ==
    LET names == {Basename(p) : p \in Children(tree, d)}
        ignored_names == IgnPatts(ignore_patts, names)
    IN  {p \in Children(tree, d) :
            p \in tree.dirs \/ Basename(p) \notin ignored_names}

\* the entries of directory d that copytree's loop does not skip
Kept(d) ==
    LET names == {Basename(p) : p \in Children(tree, d)}
        ignored_names == IgnPatts(ignore_patts, names)
    IN  {p \in Children(tree, d) : Basename(p) \notin ignored_names}

\* variant: the matches of each pattern are appended, a name that two
\* patterns match twice
RECURSIVE PerPattern(_, _)
PerPattern(patts, names) ==
    IF patts = <<>> THEN <<>>
    ELSE SetToSeq({n \in names : FnMatch(n, Head(patts))})
            \o PerPattern(Tail(patts), names)

IgnoreFnPerPattern(d) ==
    LET names == {Basename(p) : p \in Children(tree, d)}
    IN  ignored \o PerPattern(ignore_patts, names)

\* ignorefn: the ignored names of directory d are appended to the list
IgnoreFn(d) ==
    LET names == {Basename(p) : p \in Children(tree, d)}
    IN  ignored \o SetToSeq(IgnPatts(ignore_patts, names))

Frame(d) == [dir |-> d, todo |-> Kept(d), errors |-> FALSE]

\* variant: every job writes into the destination root
MyCopyJobFlat(src) ==
    [fn |-> "copyjob", src |-> src, dst |-> <<Basename(src)>>,
     codec |-> "", bitrate |-> ""]

\* variant: the transcode job is given the destination name as it came
MyCopyJobSameName(src) ==
    LET out_params == DictGet(ffmpeg_map, LStripDot(Suffix(Basename(src))))
    IN  IF out_params # None
        THEN [fn |-> "ffmpeg_conv", src |-> src, dst |-> src,
              codec |-> out_params.codec, bitrate |-> out_params.bitrate]
        ELSE [fn |-> "copyjob", src |-> src, dst |-> src,
              codec |-> "", bitrate |-> ""]

\* the job _mycopy submits for the source file src
MyCopyJob(src) ==
    LET dst == src
        out_params == DictGet(ffmpeg_map, LStripDot(Suffix(Basename(dst))))
    IN  IF out_params # None
        THEN [fn |-> "ffmpeg_conv", src |-> src,
              dst |-> ReplaceName(dst, WithSuffix(Basename(dst), out_params.ext)),
              codec |-> out_params.codec, bitrate |-> out_params.bitrate]
        ELSE [fn |-> "copyjob", src |-> src, dst |-> dst,
              codec |-> "", bitrate |-> ""]

NewFuture == [state |-> "PENDING", result |-> NoResult, exception |-> ""]

\* variant: the root is created as with dirs_exist_ok=True
CopytreeRootExistOk ==
    /\ pc = "copytree"
    /\ scanned' = scanned \cup {<<>>}
    /\ ignored' = IgnoreFn(<<>>)
    /\ dstDirs' = dstDirs \cup {<<>>}
    /\ stack' = <<Frame(<<>>)>>
    /\ pc' = "walk"
    /\ UNCHANGED pending
    /\ UNCHANGED <<envVars, poolVars, aggVars, dstFiles>>

\* shutil.copytree(indir, outdir, ...) up to the creation of outdir, and the
\* except FileExistsError clause of _main
CopytreeRoot ==
    /\ pc = "copytree"
    /\ scanned' = scanned \cup {<<>>}
    /\ ignored' = IgnoreFn(<<>>)
    /\ IF outdirExists
       THEN \* os.makedirs(outdir) raises FileExistsError
            /\ pc' = "shutdown"
            /\ pending' = "fatal"
            /\ UNCHANGED <<stack, dstDirs>>
       ELSE IF mkdirDenied
       THEN \* os.makedirs(outdir) raises PermissionError, which only an
            \* except FileExistsError clause awaits
            /\ pc' = "shutdown"
            /\ pending' = "raise"
            /\ UNCHANGED <<stack, dstDirs>>
       ELSE /\ dstDirs' = dstDirs \cup {<<>>}
            /\ stack' = <<Frame(<<>>)>>
            /\ pc' = "walk"
            /\ UNCHANGED pending
    /\ UNCHANGED <<envVars, poolVars, aggVars, dstFiles>>

Top == stack[Len(stack)]
SetTop(f) == [stack EXCEPT ![Len(stack)] = f]

\* variant: the destination directory is not created by the walk
WalkDirNoMkdir(p) ==
    /\ pc = "walk"
    /\ stack # <<>>
    /\ p \in Top.todo
    /\ p \in tree.dirs
    /\ IF p \in unreadable
       THEN /\ stack' = SetTop([Top EXCEPT !.todo = @ \ {p}, !.errors = TRUE])
            /\ UNCHANGED <<scanned, ignored, dstDirs>>
       ELSE /\ scanned' = scanned \cup {p}
            /\ ignored' = IgnoreFn(p)
            /\ UNCHANGED dstDirs
            /\ stack' = Append(SetTop([Top EXCEPT !.todo = @ \ {p}]), Frame(p))
    /\ UNCHANGED <<envVars, pc, pending, poolVars, aggVars, dstFiles>>

\* one iteration of copytree's loop on a kept subdirectory: the recursive
\* copytree call up to the creation of the destination directory
WalkDir(p) ==
    /\ pc = "walk"
    /\ stack # <<>>
    /\ p \in Top.todo
    /\ p \in tree.dirs
    /\ IF p \in unreadable
       THEN \* os.scandir raises PermissionError, caught by the caller's loop
            /\ stack' = SetTop([Top EXCEPT !.todo = @ \ {p}, !.errors = TRUE])
            /\ UNCHANGED <<scanned, ignored, dstDirs>>
       ELSE /\ scanned' = scanned \cup {p}
            /\ ignored' = IgnoreFn(p)
            /\ IF p \in dstDirs \/ \E f \in dstFiles : f.path = p
               THEN \* os.makedirs raises FileExistsError, caught by the caller
                    /\ stack' = SetTop([Top EXCEPT !.todo = @ \ {p},
                                                   !.errors = TRUE])
                    /\ UNCHANGED dstDirs
               ELSE /\ dstDirs' = dstDirs \cup {p}
                    /\ stack' = Append(SetTop([Top EXCEPT !.todo = @ \ {p}]),
                                       Frame(p))
    /\ UNCHANGED <<envVars, pc, pending, poolVars, aggVars, dstFiles>>

\* variant: submitting waits for a free worker
WalkFileBlocking(p) ==
    /\ pc = "walk"
    /\ stack # <<>>
    /\ p \in Top.todo
    /\ p \in tree.files
    /\ Cardinality({i \in 1..Len(fut) : fut[i].state # "FINISHED"})
          < (IF concurrency > 1 THEN concurrency ELSE 1)
    /\ stack' = SetTop([Top EXCEPT !.todo = @ \ {p}])
    /\ futures' = Append(futures, MyCopyJob(p))
    /\ fut' = Append(fut, NewFuture)
    /\ UNCHANGED <<envVars, pc, pending, scanned, ignored, aggVars, fsVars>>

\* one iteration of copytree's loop on a kept file: copy_function = _mycopy
\* submits a job to the pool and appends its handle
WalkFile(p) ==
    /\ pc = "walk"
    /\ stack # <<>>
    /\ p \in Top.todo
    /\ p \in tree.files
    /\ stack' = SetTop([Top EXCEPT !.todo = @ \ {p}])
    /\ futures' = Append(futures, MyCopyJob(p))
    /\ fut' = Append(fut, NewFuture)
    /\ UNCHANGED <<envVars, pc, pending, scanned, ignored, aggVars, fsVars>>

\* the end of a copytree call: raise Error(errors) when errors were collected;
\* the caller's loop collects it, and _main lets the root's through
WalkReturn ==
    /\ pc = "walk"
    /\ stack # <<>>
    /\ Top.todo = {}
    /\ IF Len(stack) = 1
       THEN /\ stack' = <<>>
            /\ IF Top.errors
               THEN pc' = "shutdown" /\ pending' = "raise"
               ELSE pc' = "as_completed" /\ UNCHANGED pending
       ELSE /\ stack' = [i \in 1..(Len(stack) - 1) |->
                           IF i = Len(stack) - 1
                           THEN [stack[i] EXCEPT !.errors = @ \/ Top.errors]
                           ELSE stack[i]]
            /\ UNCHANGED <<pc, pending>>
    /\ UNCHANGED <<envVars, scanned, ignored, poolVars, aggVars, fsVars>>

\* ------------------------------------------------------------- the pool
Handles == 1..Len(futures)

\* variant: the pool is given one worker per submitted job
MaxWorkersPerJob == Len(futures)

\* ThreadPoolExecutor(max_workers=max(1, concurrency))
MaxWorkers == IF concurrency > 1 THEN concurrency ELSE 1

Running == {i \in Handles : fut[i].state = "RUNNING"}
Pending == {i \in Handles : fut[i].state = "PENDING"}
Finished == {i \in Handles : fut[i].state = "FINISHED"}

\* a free worker takes the oldest queued job
WorkerStart ==
    /\ Pending # {}
    /\ Cardinality(Running) < MaxWorkers
    /\ LET i == CHOOSE j \in Pending : \A k \in Pending : j <= k
       IN  fut' = [fut EXCEPT ![i].state = "RUNNING"]
    /\ UNCHANGED <<envVars, pc, pending, walkVars, futures, aggVars, fsVars>>

\* the argument vector of ffmpeg_conv
FfmpegCmd(job) ==
    <<"ffmpeg", "-loglevel", "warning", "-i", job.src, "-c:a", job.codec,
      "-b:a", job.bitrate, "-vn", job.dst>>

\* the destination after a job wrote the file path
Written(path, origin, enc) ==
    {f \in dstFiles : f.path # path}
        \cup {[path |-> path, origin |-> origin, enc |-> enc]}

\* copyjob(src, dst): shutil.copy2, every exception turned into a result
CopyJobResult(job) ==
    IF job.src \in unreadable
    THEN [success |-> FALSE, src |-> job.src, dst |-> job.dst,
          cmd |-> <<"shutil.copy2">>, msg |-> "Permission denied"]
    ELSE [success |-> TRUE, src |-> job.src, dst |-> job.dst,
          cmd |-> <<"shutil.copy2">>, msg |-> "None"]

\* ffmpeg_conv(src, dst, codec, bitrate) when subprocess.run returned: a
\* non-zero exit status is turned into a result
FfmpegResult(job) ==
    IF job.src \in unreadable
    THEN [success |-> FALSE, src |-> job.src, dst |-> job.dst,
          cmd |-> FfmpegCmd(job), msg |-> "Permission denied"]
    ELSE [success |-> TRUE, src |-> job.src, dst |-> job.dst,
          cmd |-> FfmpegCmd(job), msg |-> ""]

\* variant: copyjob without its except clause
JobExceptionCopyUncaught(job) ==
    IF job.fn = "ffmpeg_conv" /\ ~toolStarts THEN "FileNotFoundError"
    ELSE IF job.fn = "copyjob" /\ job.src \in unreadable
         THEN "PermissionError" ELSE ""

\* the exception a job function lets through: ffmpeg_conv catches only
\* CalledProcessError, so a failure to start the executable escapes
JobException(job) ==
    IF job.fn = "ffmpeg_conv" /\ ~toolStarts THEN "FileNotFoundError" ELSE ""

JobResult(job) ==
    IF job.fn = "ffmpeg_conv" THEN FfmpegResult(job) ELSE CopyJobResult(job)

\* a running job function returns or raises; the future keeps the outcome
WorkerFinish(i) ==
    /\ i \in Running
    /\ LET job == futures[i]
           exc == JobException(job)
           res == JobResult(job)
       IN  /\ IF exc # ""
              THEN fut' = [fut EXCEPT ![i] = [state |-> "FINISHED",
                                 result |-> NoResult, exception |-> exc]]
              ELSE fut' = [fut EXCEPT ![i] = [state |-> "FINISHED",
                                 result |-> res, exception |-> ""]]
           /\ IF exc = "" /\ res.success
              THEN dstFiles' = Written(job.dst, job.src,
                        IF job.fn = "ffmpeg_conv" THEN job.codec ELSE "bytes")
              ELSE UNCHANGED dstFiles
    /\ UNCHANGED <<envVars, pc, pending, walkVars, futures, aggVars, dstDirs>>

\* ------------------------------------------------------- the aggregator
Range(s) == {s[i] : i \in 1..Len(s)}

\* the handles as_completed can yield next
Yieldable == Finished \ Range(yielded)

\* one iteration of the loop over as_completed(futures)
Aggregate(i) ==
    /\ pc = "as_completed"
    /\ i \in Yieldable
    /\ yielded' = Append(yielded, i)
    /\ IF fut[i].exception # ""
       THEN \* fut.result() raises inside the with block
            /\ pc' = "shutdown"
            /\ pending' = "raise"
            /\ UNCHANGED <<failed, stderr>>
       ELSE /\ IF fut[i].result.success
               THEN UNCHANGED <<failed, stderr>>
               ELSE /\ failed' = Append(failed, fut[i].result)
                    /\ stderr' = Append(stderr,
                          [op |-> fut[i].result.cmd[1],
                           src |-> fut[i].result.src,
                           dst |-> fut[i].result.dst,
                           msg |-> fut[i].result.msg])
            /\ UNCHANGED <<pc, pending>>
    /\ UNCHANGED <<envVars, walkVars, poolVars, summary, ret, fsVars>>

\* variant: the loop ends with the first handle that completes
ExhaustedFirst == Handles = {} \/ yielded # <<>>

\* as_completed is exhausted once it has yielded every handle
Exhausted == Range(yielded) = Handles

AggregateEnd ==
    /\ pc = "as_completed"
    /\ Exhausted
    /\ pc' = "shutdown"
    /\ pending' = "tally"
    /\ UNCHANGED <<envVars, walkVars, poolVars, aggVars, fsVars>>

\* variant: the ignored entries are not taken off the successes
TallyOkWithIgnored ==
    LET n_futs == Len(futures)
        n_ign  == Len(ignored)
        n_fail == Len(failed)
        n_tot  == n_futs + n_ign
        n_ok   == n_tot - n_fail
    IN  [ok |-> n_ok, ign |-> n_ign, fail |-> n_fail, tot |-> n_tot]

\* the counts _main computes after the pool is shut down
Tally ==
    LET n_futs == Len(futures)
        n_ign  == Len(ignored)
        n_fail == Len(failed)
        n_tot  == n_futs + n_ign
        n_ok   == n_tot - n_fail - n_ign
    IN  [ok |-> n_ok, ign |-> n_ign, fail |-> n_fail, tot |-> n_tot]

\* variant: the pool is shut down with wait=False
ShutdownNoWait ==
    /\ pc = "shutdown"
    /\ pc' = IF pending = "raise" THEN "raised" ELSE "returned"
    /\ IF pending = "tally"
       THEN /\ summary' = Tally
            /\ ret' = IF Tally.fail > 0 THEN -1 ELSE 0
       ELSE /\ ret' = IF pending = "fatal" THEN -2 ELSE ret
            /\ UNCHANGED summary
    /\ UNCHANGED <<envVars, pending, walkVars, poolVars, yielded, failed,
                   stderr, fsVars>>

\* leaving the with block (pool.shutdown(wait=True)), then the rest of _main
Shutdown ==
    /\ pc = "shutdown"
    /\ Finished = Handles
    /\ pc' = IF pending = "raise" THEN "raised" ELSE "returned"
    /\ IF pending = "tally"
       THEN /\ summary' = Tally
            /\ ret' = IF Tally.fail > 0 THEN -1 ELSE 0
       ELSE /\ ret' = IF pending = "fatal" THEN -2 ELSE ret
            /\ UNCHANGED summary
    /\ UNCHANGED <<envVars, pending, walkVars, poolVars, yielded, failed,
                   stderr, fsVars>>

Next ==
    \/ CopytreeRoot
    \/ \E p \in tree.dirs : WalkDir(p)
    \/ \E p \in tree.files : WalkFile(p)
    \/ WalkReturn
    \/ WorkerStart
    \/ \E i \in Handles : WorkerFinish(i)
    \/ \E i \in Handles : Aggregate(i)
    \/ AggregateEnd
    \/ Shutdown

Spec == Init /\ [][Next]_vars
\* ------------------------------------------------------------ properties
Returned == pc = "returned"
Raised == pc = "raised"
Terminated == Returned \/ Raised
NonFatal == Returned /\ ret \in {0, -1}

\* the walk ran to its end: copytree returned without raising
WalkCompleted ==
    \/ pc = "as_completed"
    \/ pending = "tally"
    \/ (pending = "raise" /\ yielded # <<>>)

ReportedSuccess(i) ==
    fut[i].state = "FINISHED" /\ fut[i].exception = "" /\ fut[i].result.success
ReportedFailure(i) ==
    fut[i].state = "FINISHED" /\ fut[i].exception = "" /\ ~fut[i].result.success

\* an entry the walk must leave out: its own name or the name of one of the
\* directories above it matches an ignore pattern
Hidden(p) ==
    \E k \in 1..Len(p) : \E i \in 1..Len(ignore_patts) :
        FnMatch(p[k], ignore_patts[i])

KeptFiles == {p \in tree.files : ~Hidden(p)}
KeptDirs == {p \in tree.dirs : ~Hidden(p)}

\* C1: when outdir exists at the start of _main, no job is ever submitted or
\* started, nothing is written below outdir, and _main ends by returning -2.
C1_FatalBeforeAnyJob ==
    outdirExists =>
        /\ futures = <<>>
        /\ Running = {} /\ Finished = {}
        /\ dstFiles = {}
        /\ Terminated => (Returned /\ ret = -2)

C1_Witness ==
    outdirExists /\ Returned /\ ret = -2 /\ KeptFiles # {}

\* C2: _main ends by returning 0 exactly when the walk completed and every
\* submitted job reported success, by returning -1 exactly when the walk
\* completed and some submitted job reported failure, and by returning -2
\* exactly when outdir existed and no job ran.
C2_TriState ==
    Terminated =>
        /\ (Returned /\ ret = 0) <=>
              (WalkCompleted /\ \A i \in Handles : ReportedSuccess(i))
        /\ (Returned /\ ret = -1) <=>
              (WalkCompleted /\ \E i \in Handles : ReportedFailure(i))
        /\ (Returned /\ ret = -2) <=> (outdirExists /\ Handles = {})

\* the run's only cause of failure is one unreadable kept file
OneUnreadableKeptFile ==
    /\ ~outdirExists
    /\ ~mkdirDenied
    /\ Cardinality(unreadable \cap KeptFiles) = 1
    /\ unreadable \cap KeptDirs = {}
    /\ toolStarts

\* C3: when exactly one kept file is unreadable and nothing else can fail,
\* the walk lists every kept directory and submits one job per kept file,
\* every other file's job reports success, the unreadable file yields exactly
\* one failed result, and _main returns -1 with failed >= 1.
C3_OneFailureDoesNotAbort ==
    (OneUnreadableKeptFile /\ Terminated) =>
        /\ Returned /\ ret = -1
        /\ summary.fail >= 1
        /\ scanned = KeptDirs
        /\ \A p \in KeptFiles :
              Cardinality({i \in Handles : futures[i].src = p}) = 1
        /\ \A i \in Handles :
              IF futures[i].src \in unreadable
              THEN ReportedFailure(i)
              ELSE ReportedSuccess(i)
        /\ Len(failed) = 1
        /\ failed[1].src \in unreadable
        /\ ~failed[1].success

C3_Witness ==
    /\ OneUnreadableKeptFile /\ Returned /\ ret = -1
    /\ \E i \in Handles : ReportedSuccess(i)
    /\ \E i \in Handles : ReportedFailure(i)
    /\ Cardinality(scanned) > 1

\* C4: every job that fails leaves a result with success = false in its
\* handle, never an exception: no handle holds an exception and _main never
\* ends by raising out of the aggregation loop.
C4_FailuresRecovered ==
    /\ \A i \in Handles : fut[i].exception = ""
    /\ ~(Raised /\ yielded # <<>>)

\* C5: when _main returns 0 or -1, every submitted handle has completed and
\* as_completed has yielded it exactly once.
C5_FullJoin ==
    NonFatal =>
        /\ \A i \in Handles : fut[i].state = "FINISHED"
        /\ Len(yielded) = Len(futures)
        /\ \A i \in Handles :
              Cardinality({k \in 1..Len(yielded) : yielded[k] = i}) = 1

\* three handles drained in an order that differs from the submission order
C5_Witness ==
    /\ NonFatal
    /\ Len(futures) = 3
    /\ yielded[1] # 1
    /\ ret = -1

\* C6: when _main returns 0 or -1, total = submitted + ignored and
\* ok = total - failed - ignored, failed is the number of handles whose result
\* has success = false, ok the number whose result has success = true,
\* ok + failed = submitted, and each failed result has exactly one warning line.
C6_Tallies ==
    NonFatal =>
        /\ summary.ign = Len(ignored)
        /\ summary.tot = Len(futures) + Len(ignored)
        /\ summary.ok = summary.tot - summary.fail - summary.ign
        /\ summary.fail = Cardinality({i \in Handles : ReportedFailure(i)})
        /\ summary.ok = Cardinality({i \in Handles : ReportedSuccess(i)})
        /\ summary.ok + summary.fail = Len(futures)
        /\ Len(stderr) = summary.fail
        /\ \A i \in Handles : ReportedFailure(i) =>
              Cardinality({k \in 1..Len(stderr) :
                             /\ stderr[k].src = fut[i].result.src
                             /\ stderr[k].dst = fut[i].result.dst
                             /\ stderr[k].msg = fut[i].result.msg}) = 1

C6_Witness ==
    NonFatal /\ summary.fail >= 1 /\ summary.ign >= 1 /\ summary.ok >= 1

\* a file or directory that lies below a directory whose name matches an
\* ignore pattern
UnderIgnoredDir(p) ==
    \E k \in 1..(Len(p) - 1) : \E i \in 1..Len(ignore_patts) :
        FnMatch(p[k], ignore_patts[i])

\* C7: in every state, no directory whose name (or the name of a directory
\* above it) matches an ignore pattern has been listed or created at the
\* destination, no job has been submitted for a file that matches or lies
\* below such a directory, and no file has been written below such a directory
\* or from such a file.
C7_IgnoredSubtreeExcluded ==
    /\ \A p \in scanned : ~Hidden(p)
    /\ \A p \in dstDirs : ~Hidden(p)
    /\ \A i \in Handles : ~Hidden(futures[i].src)
    /\ \A f \in dstFiles : ~Hidden(f.origin) /\ ~UnderIgnoredDir(f.path)

\* a run that ended with an ignored directory holding a file, next to a file
\* that was dispatched
C7_Witness ==
    /\ Returned /\ ret = 0
    /\ \E p \in tree.files : UnderIgnoredDir(p)
    /\ ignored # <<>>
    /\ futures # <<>>

\* the name is a non-empty stem, a dot and the extension e
HasExt(name, e) ==
    /\ Len(name) > Len(e) + 1
    /\ name[Len(name) - Len(e)] = "."
    /\ \A k \in 1..Len(e) : name[Len(name) - Len(e) + k] = e[k]

Stem(name, e) == [k \in 1..(Len(name) - Len(e) - 1) |-> name[k]]

NoRuleMatches ==
    \A p \in tree.files : \A it \in ffmpeg_map : ~HasExt(Basename(p), it[1])

PlainCopyRun == NonFatal /\ NoRuleMatches /\ ignore_patts = <<>>

DstEqualsSrc ==
    /\ dstDirs = tree.dirs
    /\ {f.path : f \in dstFiles} = tree.files
    /\ \A f \in dstFiles : f.origin = f.path /\ f.enc = "bytes"

\* C8 as stated: with no matching rule and no ignore pattern, after _main
\* returns the destination tree equals the source tree and failed = 0.
C8_Original ==
    PlainCopyRun => (DstEqualsSrc /\ summary.fail = 0)

\* C8 amended: with no matching rule and no ignore pattern, after _main
\* returns 0 or -1 the destination has every source directory and exactly the
\* source files whose copy job reported success, each at its relative path
\* with the source's content; failed is the number of files whose copy job
\* reported failure; the trees are equal and failed = 0 when no file is
\* unreadable.
C8_Amended ==
    PlainCopyRun =>
        /\ dstDirs = tree.dirs
        /\ {f.path : f \in dstFiles} =
              {futures[i].src : i \in {j \in Handles : ReportedSuccess(j)}}
        /\ {f.path : f \in dstFiles} = tree.files \ unreadable
        /\ \A f \in dstFiles : f.origin = f.path /\ f.enc = "bytes"
        /\ summary.fail = Cardinality({i \in Handles : ReportedFailure(i)})
        /\ summary.fail = Cardinality(tree.files \cap unreadable)
        /\ (tree.files \cap unreadable = {}) =>
              (DstEqualsSrc /\ summary.fail = 0)

C8_Witness ==
    /\ PlainCopyRun
    /\ summary.fail = 1
    /\ \E f \in dstFiles : Len(f.path) = 2

\* C9: in every state, a job submitted for a file whose extension is a key of
\* the rule table is a transcode job whose destination is the file's relative
\* path with the extension replaced by the rule's output extension, its
\* result, success or failure, carries that destination, and no job for that
\* file has the original path as its destination.
C9_RewrittenDestination ==
    \A i \in Handles : \A it \in ffmpeg_map :
        LET src == futures[i].src
            name == Basename(src)
            want == Parent(src) \o
                      <<Stem(name, it[1]) \o <<".">> \o it[2].ext>>
        IN  HasExt(name, it[1]) =>
              /\ futures[i].fn = "ffmpeg_conv"
              /\ futures[i].dst = want
              /\ want # src
              /\ (fut[i].state = "FINISHED" /\ fut[i].exception = "") =>
                    fut[i].result.dst = want
              /\ \A j \in Handles : futures[j].src = src => futures[j].dst # src

C9_Witness ==
    \E i \in Handles :
        /\ futures[i].fn = "ffmpeg_conv"
        /\ ReportedFailure(i)
        /\ Len(futures[i].src) = 2

\* C10: no two jobs submitted during one run have the same destination path,
\* and no two jobs running at the same time write the same destination file.
C10_DistinctDestinations ==
    /\ \A i, j \in Handles : i # j => futures[i].dst # futures[j].dst
    /\ \A i, j \in Running : i # j => futures[i].dst # futures[j].dst

\* C13: when outdir cannot be created for a reason other than existing, no job
\* is ever submitted and _main ends by returning -2, as for an existing outdir.
C13_UncreatableRootIsFatal ==
    mkdirDenied =>
        /\ futures = <<>>
        /\ Terminated => (Returned /\ ret = -2)

\* C14: a job is submitted only when the directory that holds its destination
\* path has already been created, and a job is running only while that
\* directory exists.
C14_MkdirBeforeSubmit ==
    [][ /\ Len(futures') > Len(futures) =>
              Parent(futures'[Len(futures')].dst) \in dstDirs
        /\ \A i \in 1..Len(fut') : fut'[i].state = "RUNNING" =>
              Parent(futures'[i].dst) \in dstDirs' ]_vars

C14_Witness ==
    \E i \in Handles :
        /\ Len(futures[i].dst) = 2
        /\ fut[i].state = "RUNNING"
        /\ Parent(futures[i].dst) \in dstDirs

\* a step of the walking thread
WalkStep ==
    \/ \E p \in tree.dirs : WalkDir(p)
    \/ \E p \in tree.files : WalkFile(p)
    \/ WalkReturn

\* C15: during the walk the walking thread can always take its next step,
\* whatever the state of the submitted jobs, and it redeems no handle before
\* the walk has ended.
C15_NonBlockingSubmission ==
    /\ pc = "walk" => ENABLED WalkStep
    /\ pc \in {"copytree", "walk"} => (yielded = <<>> /\ failed = <<>>)

\* the walk has ended with three jobs submitted to a pool of one worker and
\* none of them started
C15_Witness ==
    /\ pc = "as_completed"
    /\ MaxWorkers = 1
    /\ Len(futures) = 3
    /\ \A i \in Handles : fut[i].state = "PENDING"

\* the rules whose key is the extension of the name
Matching(name) == {it \in ffmpeg_map : HasExt(name, it[1])}

\* C16: every handle belongs to one job for one kept file and no file has two
\* handles; the job is a transcode job with the rule's codec and bitrate and
\* the rewritten destination name when the file's extension is a key of the
\* rule table, and a copy job with the unmodified destination name otherwise;
\* once the walk has ended there is exactly one handle per kept file.
C16_OneJobPerKeptFile ==
    /\ Len(fut) = Len(futures)
    /\ \A i \in Handles : futures[i].src \in KeptFiles
    /\ \A i, j \in Handles : i # j => futures[i].src # futures[j].src
    /\ \A i \in Handles :
          LET src == futures[i].src
              name == Basename(src)
          IN  IF Matching(name) # {}
              THEN /\ futures[i].fn = "ffmpeg_conv"
                   /\ \E it \in Matching(name) :
                         /\ futures[i].dst = Parent(src) \o
                               <<Stem(name, it[1]) \o <<".">> \o it[2].ext>>
                         /\ futures[i].codec = it[2].codec
                         /\ futures[i].bitrate = it[2].bitrate
              ELSE /\ futures[i].fn = "copyjob"
                   /\ futures[i].dst = src
    /\ WalkCompleted =>
          /\ {futures[i].src : i \in Handles} = KeptFiles
          /\ Len(futures) = Cardinality(KeptFiles)

\* the walk has ended with a transcode job and with a copy job for a file
\* whose name is a dot followed by a rule's key
C16_Witness ==
    /\ WalkCompleted
    /\ \E i \in Handles : futures[i].fn = "ffmpeg_conv"
    /\ \E i \in Handles :
          /\ futures[i].fn = "copyjob"
          /\ \E it \in ffmpeg_map : Basename(futures[i].src) = <<".">> \o it[1]

\* C18: the number of jobs running at the same time never exceeds
\* max(1, concurrency), and every other submitted job is queued or finished.
C18_FixedSizePool ==
    /\ Cardinality(Running) <= (IF concurrency >= 1 THEN concurrency ELSE 1)
    /\ Len(fut) = Len(futures)
    /\ \A i \in Handles : fut[i].state \in {"PENDING", "RUNNING", "FINISHED"}

\* concurrency = 0 is raised to one worker, which is busy while jobs queue
C18_Witness ==
    /\ concurrency = 0
    /\ Cardinality(Running) = 1
    /\ Cardinality(Pending) = 2

\* C19: when _main has returned or raised, every submitted job has run to its
\* end: none is queued and none is running.
C19_NoJobOutlivesMain ==
    Terminated =>
        /\ Pending = {} /\ Running = {}
        /\ \A i \in Handles : fut[i].state = "FINISHED"

\* _main raised out of the aggregation loop after one handle while two more
\* jobs had been submitted
C19_Witness ==
    /\ Raised
    /\ Len(yielded) = 1
    /\ Len(futures) = 3

\* the steps of the thread that runs _main, and the steps of the pool's workers
MainStep ==
    \/ CopytreeRoot
    \/ WalkStep
    \/ \E i \in Handles : Aggregate(i)
    \/ AggregateEnd
    \/ Shutdown

WorkerStep ==
    \/ WorkerStart
    \/ \E i \in Handles : WorkerFinish(i)

\* the main thread and the workers are scheduled fairly
FairSpec == Spec /\ WF_vars(MainStep) /\ WF_vars(WorkerStep)

\* C17: once the walk has completed, _main eventually returns an aggregate
\* status (0 or -1).
C17_EventuallyReturns == WalkCompleted ~> NonFatal

\* under fair scheduling every run of _main ends, by returning or by raising
EveryRunEnds == <>Terminated

\* the example run: {a.f, d/b.t, d/n.m}, rule f -> o, ignore pattern *.m
N_bt == <<"b", ".", "t">>
ExampleTree ==
    [dirs |-> {<<>>, <<N_d>>},
     files |-> {<<N_af>>, <<N_d, N_bt>>, <<N_d, N_nm>>}]

InitExample ==
    /\ tree = ExampleTree
    /\ unreadable = {}
    /\ ffmpeg_map = {<<E_f, R_f>>}
    /\ toolStarts = TRUE
    /\ outdirExists = FALSE
    /\ mkdirDenied = FALSE
    /\ ignore_patts = <<P_star_m>>
    /\ concurrency \in 0..MaxConcurrency
    /\ argv = <<>>
    /\ argi = 0
    /\ namespace = PyNone
    /\ clierr = <<>>
    /\ pc = "copytree"
    /\ pending = "none"
    /\ stack = <<>>
    /\ scanned = {}
    /\ ignored = <<>>
    /\ futures = <<>>
    /\ fut = <<>>
    /\ yielded = <<>>
    /\ failed = <<>>
    /\ stderr = <<>>
    /\ summary = NoSummary
    /\ ret = 0
    /\ dstDirs = {}
    /\ dstFiles = {}

SpecExample == (Init \/ InitExample) /\ [][Next]_vars

\* the name of the entry matches an ignore pattern
NameIgnored(p) ==
    \E i \in 1..Len(ignore_patts) : FnMatch(Basename(p), ignore_patts[i])

Entries == (tree.dirs \cup tree.files) \ {<<>>}

ExampleRun ==
    /\ tree = ExampleTree
    /\ ignore_patts = <<P_star_m>>
    /\ ffmpeg_map = {<<E_f, R_f>>}
    /\ unreadable = {}
    /\ toolStarts
    /\ ~outdirExists /\ ~mkdirDenied

\* C20: the ignored list holds one element per entry of a listed directory
\* whose name matches an ignore pattern; nothing below an ignored directory is
\* listed or counted; the jobs submitted are those of the kept files, whatever
\* the list holds; and the example run ends with ok = 2, ignored = 1,
\* failed = 0, total = 3 and the destination {a.o, d/b.t}.
C20_IgnoredCount ==
    /\ Len(ignored) =
          Cardinality({p \in Entries : Parent(p) \in scanned /\ NameIgnored(p)})
    /\ \A p \in Entries : UnderIgnoredDir(p) => Parent(p) \notin scanned
    /\ \A i \in Handles : futures[i].src \in KeptFiles
    /\ WalkCompleted =>
          /\ Len(ignored) = Cardinality({p \in Entries :
                                NameIgnored(p) /\ ~UnderIgnoredDir(p)})
          /\ {futures[i].src : i \in Handles} = KeptFiles
    /\ (ExampleRun /\ Terminated) =>
          /\ Returned /\ ret = 0
          /\ summary = [ok |-> 2, ign |-> 1, fail |-> 0, tot |-> 3]
          /\ {f.path : f \in dstFiles} = {<<N_ao>>, <<N_d, N_bt>>}

C20_Witness ==
    /\ ExampleRun /\ Returned
    /\ summary = [ok |-> 2, ign |-> 1, fail |-> 0, tot |-> 3]

\* --------------------------------------------- the --ffmpeg rule strings
MaxOccurrences == 2  \* most --ffmpeg occurrences on a command line
MaxValues == 2       \* most rule strings of one occurrence

\* the characters of [a-zA-Z0-9] and of \d that the rule strings use
AlnumChars == {"f", "c", "o", "d", "m", "x", "k", "b", "1", "2"}
DigitChars == {"1", "2"}

S_f1      == <<"f", ":", "c", ":", "o", ":", "1", "k">>
S_f2      == <<"f", ":", "d", ":", "m", ":", "2", "k">>
S_o       == <<"o", ":", "c", ":", "m", ":", "1", "k">>
S_missing == <<"f", ":", "c", ":", "1", "k">>
S_extra   == <<"x", ":">> \o S_f1
S_nonnum  == <<"f", ":", "c", ":", "o", ":", "x", "k">>
S_nok     == <<"f", ":", "c", ":", "o", ":", "1">>
S_trail   == S_f1 \o <<"b">>
S_lead    == <<" ">> \o S_f1

RuleStrings == {S_f1, S_f2, S_o, S_missing, S_extra, S_nonnum, S_nok,
                S_trail, S_lead}

\* the index after the longest run of characters of cs that starts at i
RECURSIVE RunEnd(_, _, _)
RunEnd(s, i, cs) ==
    IF i <= Len(s) /\ s[i] \in cs THEN RunEnd(s, i + 1, cs) ELSE i

\* _PATT matched at position i: three runs of [a-zA-Z0-9], each followed by a
\* colon, then a run of digits followed by k
PattAt(s, i) ==
    LET e1 == RunEnd(s, i, AlnumChars)
        e2 == RunEnd(s, e1 + 1, AlnumChars)
        e3 == RunEnd(s, e2 + 1, AlnumChars)
        e4 == RunEnd(s, e3 + 1, DigitChars)
        ok == /\ e1 > i /\ e1 <= Len(s) /\ s[e1] = ":"
              /\ e2 > e1 + 1 /\ e2 <= Len(s) /\ s[e2] = ":"
              /\ e3 > e2 + 1 /\ e3 <= Len(s) /\ s[e3] = ":"
              /\ e4 > e3 + 1 /\ e4 <= Len(s) /\ s[e4] = "k"
    IN  IF ok
        THEN [ok |-> TRUE,
              vals |-> <<SubSeq(s, i, e1 - 1), SubSeq(s, e1 + 1, e2 - 1),
                         SubSeq(s, e2 + 1, e3 - 1), SubSeq(s, e3 + 1, e4)>>]
        ELSE [ok |-> FALSE, vals |-> <<>>]

\* parse_ffmpeg_rule: the first match of _PATT.findall, found anywhere in
\* the string; ok is FALSE for the result None
NoRule == [ok |-> FALSE, key |-> <<>>,
           rule |-> [codec |-> <<>>, ext |-> <<>>, bitrate |-> <<>>]]

parse_ffmpeg_rule(rule) ==
    LET starts == {i \in 1..Len(rule) : PattAt(rule, i).ok}
    IN  IF starts = {} THEN NoRule
        ELSE LET first == CHOOSE i \in starts : \A k \in starts : i <= k
                 vals == PattAt(rule, first).vals
             IN  [ok |-> TRUE, key |-> vals[1],
                  rule |-> [codec |-> vals[2], ext |-> vals[3],
                            bitrate |-> vals[4]]]

\* d[k] = v
DictSet(d, k, v) == {it \in d : it[1] # k} \cup {<<k, v>>}

\* dict(pairs): a later pair replaces an earlier one of the same key
RECURSIVE DictOf(_)
DictOf(pairs) ==
    IF pairs = <<>> THEN {}
    ELSE LET n == Len(pairs)
         IN  DictSet(DictOf(SubSeq(pairs, 1, n - 1)), pairs[n][1], pairs[n][2])

\* {**a, **b}
DictMerge(a, b) == {it \in a : \A e \in b : e[1] # it[1]} \cup b

\* x or {}
OrEmpty(x) == IF x.none THEN {} ELSE x.items

SeqsBetween(S, lo, hi) == UNION {[1..n -> S] : n \in lo..hi}

\* nargs='+': an occurrence carries at least one rule string
Occurrences == SeqsBetween(RuleStrings, 1, MaxValues)
CommandLines == SeqsBetween(Occurrences, 0, MaxOccurrences)

mainVars == <<tree, unreadable, toolStarts, outdirExists, mkdirDenied,
              ffmpeg_map, ignore_patts, concurrency, pending, walkVars,
              poolVars, aggVars, fsVars>>

InitCli ==
    /\ argv \in CommandLines
    /\ argi = 0
    /\ namespace = PyNone
    /\ clierr = <<>>
    /\ pc = "parse_args"
    /\ tree = EmptyTree
    /\ unreadable = {}
    /\ ffmpeg_map = {}
    /\ toolStarts = TRUE
    /\ outdirExists = FALSE
    /\ mkdirDenied = FALSE
    /\ ignore_patts = <<>>
    /\ concurrency = 1
    /\ pending = "none"
    /\ stack = <<>>
    /\ scanned = {}
    /\ ignored = <<>>
    /\ futures = <<>>
    /\ fut = <<>>
    /\ yielded = <<>>
    /\ failed = <<>>
    /\ stderr = <<>>
    /\ summary = NoSummary
    /\ ret = 0
    /\ dstDirs = {}
    /\ dstFiles = {}

\* FFMPEGRuleAction.__call__ for the next --ffmpeg occurrence: the first
\* value without a rule raises ArgumentError, on which argparse exits
FFMPEGRuleAction ==
    /\ pc = "parse_args"
    /\ argi < Len(argv)
    /\ LET values == argv[argi + 1]
           bad == {j \in 1..Len(values) : ~parse_ffmpeg_rule(values[j]).ok}
       IN  IF bad # {}
           THEN /\ clierr' = values[CHOOSE j \in bad : \A k \in bad : j <= k]
                /\ pc' = "exit"
                /\ UNCHANGED <<argi, namespace>>
           ELSE LET addendum ==
                      DictOf([j \in 1..Len(values) |->
                                <<parse_ffmpeg_rule(values[j]).key,
                                  parse_ffmpeg_rule(values[j]).rule>>])
                    existing == OrEmpty(namespace)
                IN  /\ namespace' = PyDict(DictMerge(addendum, existing))
                    /\ argi' = argi + 1
                    /\ UNCHANGED <<pc, clierr>>
    /\ UNCHANGED <<argv, mainVars>>

\* parse_args returns the namespace
ParseArgsReturn ==
    /\ pc = "parse_args"
    /\ argi = Len(argv)
    /\ pc' = "parsed"
    /\ UNCHANGED <<cliVars, mainVars>>

NextCli == FFMPEGRuleAction \/ ParseArgsReturn

SpecCli == InitCli /\ [][NextCli]_vars

\* the rule strings of the occurrences processed so far, in command-line order
RECURSIVE Flatten(_)
Flatten(ss) == IF ss = <<>> THEN <<>> ELSE Head(ss) \o Flatten(Tail(ss))

Declared == Flatten(SubSeq(argv, 1, argi))

\* C11: for every input extension declared so far, the rule table holds the
\* codec, extension and bitrate of the earliest rule string declaring it.
C11_FirstDeclaredWins ==
    \A j \in 1..Len(Declared) :
        LET r == parse_ffmpeg_rule(Declared[j])
            same == {i \in 1..Len(Declared) :
                        /\ parse_ffmpeg_rule(Declared[i]).ok
                        /\ parse_ffmpeg_rule(Declared[i]).key = r.key}
            first == CHOOSE i \in same : \A k \in same : i <= k
        IN  r.ok =>
              <<r.key, parse_ffmpeg_rule(Declared[first]).rule>>
                  \in OrEmpty(namespace)

\* a rule string as the usage text describes it: four colon-separated fields,
\* the first three of letters and digits, the fourth digits followed by k
AllIn(s, cs) == s # <<>> /\ \A i \in 1..Len(s) : s[i] \in cs

WellFormed(s) ==
    LET colons == {i \in 1..Len(s) : s[i] = ":"}
        c1 == CHOOSE i \in colons : \A k \in colons : i <= k
        c3 == CHOOSE i \in colons : \A k \in colons : i >= k
        c2 == CHOOSE i \in colons : i # c1 /\ i # c3
    IN  /\ Cardinality(colons) = 3
        /\ AllIn(SubSeq(s, 1, c1 - 1), AlnumChars)
        /\ AllIn(SubSeq(s, c1 + 1, c2 - 1), AlnumChars)
        /\ AllIn(SubSeq(s, c2 + 1, c3 - 1), AlnumChars)
        /\ AllIn(SubSeq(s, c3 + 1, Len(s) - 1), DigitChars)
        /\ s[Len(s)] = "k"

\* C12: no malformed rule string gets past parsing: every rule string of an
\* occurrence that was processed without a configuration error is well-formed.
C12_MalformedRejected ==
    \A j \in 1..Len(Declared) : WellFormed(Declared[j])

====
